---- MODULE Spec2Model ----
(***************************************************************************)
(* A model of gnuflag-cpp: the Value abstraction, the typed constructors,  *)
(* the registry construction at the head of parseCLI and the scanning loop *)
(* of parseCLI around getopt_long.                                         *)
(*                                                                         *)
(* Strings are sequences of one-character strings, so that tokens can be   *)
(* taken apart the way getopt_long and std::stoi take them apart.          *)
(* boost::optional<T> is a record [has, val].                              *)
(* argv is a TLA+ sequence whose element i+1 is the C element argv[i];     *)
(* optind, option_index and the allOpts indices keep their C values.       *)
(***************************************************************************)
EXTENDS Integers, Sequences, FiniteSets, TLC

(***************************************************************************)
(* Bounds of the model.                                                    *)
(***************************************************************************)
\* the number of tokens after argv[0]
MaxArgs == 3
\* the number of options of a generated set of definitions
MaxOpts == 3
\* the number of tokens after argv[0] given to generated definitions
MaxGenArgs == 1

(***************************************************************************)
(* boost::optional                                                         *)
(***************************************************************************)
None == [has |-> FALSE, val |-> <<>>]
Some(s) == [has |-> TRUE, val |-> s]

(***************************************************************************)
(* CommandOption::ArgFlags and StoreFlag (gnuflag.h)                       *)
(***************************************************************************)
NoArgument == 0
RequiredArgument == 1
OptionalArgument == 2
ArgumentTypeMask == 15
Repeatable == 16
StoreFalse == 0
StoreTrue == 1

\* flags & bit, for a single-bit mask
HasBit(flags, bit) == (flags \div bit) % 2 = 1
\* flags & ArgumentTypeMask
ArgType(flags) == flags % (ArgumentTypeMask + 1)

\* a null const char * name, a zero shortName
NoName == <<>>
NoShort == ""

(***************************************************************************)
(* Character classes of the C library                                      *)
(***************************************************************************)
Digits == <<"0", "1", "2", "3", "4", "5", "6", "7", "8", "9">>
IsDigit(c) == \E d \in 1..10 : Digits[d] = c
DigitVal(c) == (CHOOSE d \in 1..10 : Digits[d] = c) - 1
IsSpace(c) == c \in {" ", "\t", "\n"}
INT_MAX == 2147483647

\* the suffix of s from position k on (s + k - 1 in C)
From(s, k) == IF k > Len(s) THEN <<>> ELSE SubSeq(s, k, Len(s))
\* strncmp(p, q, Len(q)) == 0
IsPrefix(q, p) == Len(q) <= Len(p) /\ SubSeq(p, 1, Len(q)) = q

(***************************************************************************)
(* std::stoi: skips white space, takes an optional sign and the longest    *)
(* run of digits; no digit is invalid_argument, a value outside int is     *)
(* out_of_range. What follows the digits is ignored.                       *)
(* The value is accumulated as a negative number (INT_MIN has no positive  *)
(* counterpart) with the range test made before each multiplication, so    *)
(* no intermediate value leaves the 32-bit range.                          *)
(***************************************************************************)
RECURSIVE SkipSpace(_, _)
SkipSpace(s, k) ==
  IF k <= Len(s) /\ IsSpace(s[k]) THEN SkipSpace(s, k + 1) ELSE k

RECURSIVE Accumulate(_, _, _, _)
\* st.n: digits read; st.over: the value left the range of int;
\* st.nv: minus the magnitude read so far
Accumulate(s, k, neg, st) ==
  IF k <= Len(s) /\ IsDigit(s[k])
  THEN LET d == DigitVal(s[k])
           lim == -(INT_MAX \div 10)
           last == IF neg THEN (INT_MAX % 10) + 1 ELSE INT_MAX % 10
           fits == ~st.over /\ (st.nv > lim \/ (st.nv = lim /\ d <= last))
       IN Accumulate(s, k + 1, neg,
                     [n |-> st.n + 1, over |-> ~fits,
                      nv |-> IF fits THEN st.nv * 10 - d ELSE 0])
  ELSE st

stoi(s) ==
  LET k0 == SkipSpace(s, 1)
      neg == k0 <= Len(s) /\ s[k0] = "-"
      k1 == IF k0 <= Len(s) /\ s[k0] \in {"-", "+"} THEN k0 + 1 ELSE k0
      r == Accumulate(s, k1, neg, [n |-> 0, over |-> FALSE, nv |-> 0])
  IN IF r.n = 0 THEN [ok |-> FALSE, err |-> "invalid_argument", val |-> 0]
     ELSE IF r.over THEN [ok |-> FALSE, err |-> "out_of_range", val |-> 0]
     ELSE [ok |-> TRUE, err |-> "", val |-> IF neg THEN r.nv ELSE -r.nv]

(***************************************************************************)
(* std::to_string(int)                                                     *)
(***************************************************************************)
RECURSIVE DigitsOf(_)
\* the decimal digits of minus a magnitude, n <= 0
DigitsOf(n) ==
  IF n > -10 THEN <<Digits[1 - n]>>
  ELSE LET last == (10 - (n % 10)) % 10
       IN Append(DigitsOf((n + last) \div 10), Digits[1 + last])

to_string(n) == IF n < 0 THEN <<"-">> \o DigitsOf(n) ELSE DigitsOf(-n)

(***************************************************************************)
(* The typed constructors. A Value is the record of what its two functors  *)
(* capture (the target, the default, the store policy) and of _wasSet.     *)
(***************************************************************************)
StringType(target, defValue) ==
  [kind |-> "StringType", target |-> target, defValue |-> defValue,
   store |-> StoreTrue, wasSet |-> FALSE]

IntType(target, defValue) ==
  [kind |-> "IntType", target |-> target, defValue |-> defValue,
   store |-> StoreTrue, wasSet |-> FALSE]

BoolType(target, store, defVal) ==
  [kind |-> "BoolType", target |-> target, defValue |-> defVal,
   store |-> store, wasSet |-> FALSE]

StringContainerType(target) ==
  [kind |-> "StringContainerType", target |-> target, defValue |-> None,
   store |-> StoreTrue, wasSet |-> FALSE]

\* _defaultVal(): the default as a string, or nothing
defaultValue(value) ==
  CASE value.kind = "StringType" ->
         IF ~value.defValue.has THEN None ELSE Some(value.defValue.val)
    [] value.kind = "IntType" ->
         IF value.defValue.has THEN Some(to_string(value.defValue.val)) ELSE None
    [] value.kind = "BoolType" ->
         IF ~value.defValue.has THEN None
         ELSE Some(IF value.defValue.val THEN <<"t", "r", "u", "e">>
                   ELSE <<"f", "a", "l", "s", "e">>)
    [] OTHER -> None

\* the setter of StringType
StringSetter(value, in, tg) ==
  [ok |-> in.has,
   targets |-> IF in.has THEN [tg EXCEPT ![value.target] = in.val] ELSE tg]

\* the setter of IntType
IntSetter(value, in, tg) ==
  IF ~in.has THEN [ok |-> FALSE, targets |-> tg]
  ELSE LET r == stoi(in.val)
       IN IF r.ok THEN [ok |-> TRUE, targets |-> [tg EXCEPT ![value.target] = r.val]]
          ELSE [ok |-> FALSE, targets |-> tg]

\* a setter of BoolType that stores the default when there is one
BoolSetterStoresDefault(value, in, tg) ==
  [ok |-> TRUE,
   targets |-> [tg EXCEPT ![value.target] =
                  IF value.defValue.has THEN value.defValue.val
                  ELSE (value.store = StoreTrue)]]

\* the setter of BoolType
BoolSetter(value, in, tg) ==
  [ok |-> TRUE,
   targets |-> [tg EXCEPT ![value.target] = (value.store = StoreTrue)]]

\* a setter of StringContainerType that puts the argument in front
ContainerSetterInFront(value, in, tg) ==
  IF ~in.has THEN [ok |-> FALSE, targets |-> tg]
  ELSE [ok |-> TRUE,
        targets |-> [tg EXCEPT ![value.target] = <<in.val>> \o @]]

\* the setter of StringContainerType
ContainerSetter(value, in, tg) ==
  IF ~in.has THEN [ok |-> FALSE, targets |-> tg]
  ELSE [ok |-> TRUE,
        targets |-> [tg EXCEPT ![value.target] = Append(@, in.val)]]

\* _setter(opt, in)
Setter(value, in, tg) ==
  CASE value.kind = "StringType" -> StringSetter(value, in, tg)
    [] value.kind = "IntType" -> IntSetter(value, in, tg)
    [] value.kind = "BoolType" -> BoolSetter(value, in, tg)
    [] OTHER -> ContainerSetter(value, in, tg)

(***************************************************************************)
(* Value::set. The result carries the return value, the option with its    *)
(* _wasSet as the call leaves it, the targets, and what the call did:      *)
(* whether it was rejected as a re-use, whether the setter was invoked,    *)
(* and with what.                                                          *)
(***************************************************************************)
\* Value::set without the test of _wasSet
RejectsReuseNever(opt) == FALSE

\* the test that rejects a second use
RejectsReuse(opt) == opt.value.wasSet /\ ~HasBit(opt.flags, Repeatable)

\* Value::set with "_wasSet = true" moved behind the setter: only a call
\* that succeeds marks the option
Value_setMarksSuccess(opt, in, tg) ==
  IF RejectsReuse(opt)
  THEN [ret |-> FALSE, opt |-> opt, targets |-> tg,
        reused |-> TRUE, invoked |-> FALSE, recv |-> None]
  ELSE LET marked == [opt EXCEPT !.value.wasSet = TRUE]
       IN IF ~in.has /\ HasBit(opt.flags, OptionalArgument)
          THEN LET optVal == defaultValue(opt.value)
               IN IF ~optVal.has
                  THEN [ret |-> FALSE, opt |-> opt, targets |-> tg,
                        reused |-> FALSE, invoked |-> FALSE, recv |-> None]
                  ELSE LET r == Setter(opt.value, optVal, tg)
                       IN [ret |-> r.ok, opt |-> IF r.ok THEN marked ELSE opt,
                           targets |-> r.targets,
                           reused |-> FALSE, invoked |-> TRUE, recv |-> optVal]
          ELSE IF in.has \/ (~in.has /\ ArgType(opt.flags) = NoArgument)
          THEN LET r == Setter(opt.value, in, tg)
               IN [ret |-> r.ok, opt |-> IF r.ok THEN marked ELSE opt,
                   targets |-> r.targets,
                   reused |-> FALSE, invoked |-> TRUE, recv |-> in]
          ELSE [ret |-> FALSE, opt |-> opt, targets |-> tg,
                reused |-> FALSE, invoked |-> FALSE, recv |-> None]

Value_set(opt, in, tg) ==
  IF RejectsReuse(opt)
  THEN [ret |-> FALSE, opt |-> opt, targets |-> tg,
        reused |-> TRUE, invoked |-> FALSE, recv |-> None]
  ELSE LET marked == [opt EXCEPT !.value.wasSet = TRUE]
       IN IF ~in.has /\ HasBit(opt.flags, OptionalArgument)
          THEN LET optVal == defaultValue(opt.value)
               IN IF ~optVal.has
                  THEN [ret |-> FALSE, opt |-> marked, targets |-> tg,
                        reused |-> FALSE, invoked |-> FALSE, recv |-> None]
                  ELSE LET r == Setter(opt.value, optVal, tg)
                       IN [ret |-> r.ok, opt |-> marked, targets |-> r.targets,
                           reused |-> FALSE, invoked |-> TRUE, recv |-> optVal]
          ELSE IF in.has \/ (~in.has /\ ArgType(opt.flags) = NoArgument)
          THEN LET r == Setter(opt.value, in, tg)
               IN [ret |-> r.ok, opt |-> marked, targets |-> r.targets,
                   reused |-> FALSE, invoked |-> TRUE, recv |-> in]
          ELSE [ret |-> FALSE, opt |-> marked, targets |-> tg,
                reused |-> FALSE, invoked |-> FALSE, recv |-> None]

(***************************************************************************)
(* Registry construction: the head of parseCLI.                            *)
(***************************************************************************)
\* has_arg of struct option
no_argument == 0
required_argument == 1
optional_argument == 2

\* appendToOptString without the ':' of a required argument
appendToOptStringNoColon(option, optstring) ==
  IF option.shortName # NoShort
  THEN optstring \o <<option.shortName>> \o
       (CASE ArgType(option.flags) = OptionalArgument -> <<":", ":">>
          [] OTHER -> <<>>)
  ELSE optstring

\* appendToOptString with the "::" of an optional argument cut to ":"
appendToOptStringOneColon(option, optstring) ==
  IF option.shortName # NoShort
  THEN optstring \o <<option.shortName>> \o
       (CASE ArgType(option.flags) = RequiredArgument -> <<":">>
          [] ArgType(option.flags) = OptionalArgument -> <<":">>
          [] OTHER -> <<>>)
  ELSE optstring

appendToOptString(option, optstring) ==
  IF option.shortName # NoShort
  THEN optstring \o <<option.shortName>> \o
       (CASE ArgType(option.flags) = RequiredArgument -> <<":">>
          [] ArgType(option.flags) = OptionalArgument -> <<":", ":">>
          [] OTHER -> <<>>)
  ELSE optstring

appendToLongOptions(opt, opts) ==
  LET has_arg == CASE ArgType(opt.flags) = NoArgument -> no_argument
                   [] ArgType(opt.flags) = RequiredArgument -> required_argument
                   [] OTHER -> optional_argument
  IN Append(opts, [name |-> opt.name, has_arg |-> has_arg])

\* the options of all groups, in the order the two loops visit them
RECURSIVE Flatten(_)
Flatten(groups) ==
  IF groups = <<>> THEN <<>> ELSE Head(groups).options \o Flatten(Tail(groups))

\* an insert that binds the key to the index after the one given
MapInsertNext(m, k, v) ==
  IF \E e \in m : e[1] = k THEN m ELSE m \cup {<<k, v + 1>>}

\* std::map::insert: the map with the key bound, unless the key is there
MapHas(m, k) == \E e \in m : e[1] = k
MapFind(m, k) == (CHOOSE e \in m : e[1] = k)[2]
MapInsert(m, k, v) == IF MapHas(m, k) THEN m ELSE m \cup {<<k, v>>}

\* registry construction without the test of the two arity flags
ConflictingArityNever(flags) == FALSE

\* the test for an option that is both Required and Optional
ConflictingArity(flags) ==
  HasBit(flags, RequiredArgument) /\ HasBit(flags, OptionalArgument)

\* one iteration of the inner loop on currOpt
AddOption(reg, currOpt) ==
  LET allOpts1 == Append(reg.allOpts, currOpt)
      allOptIndex == Len(allOpts1) - 1
  IN IF ConflictingArity(currOpt.flags)
     THEN [reg EXCEPT !.threw = "Argument can either be Required or Optional"]
     ELSE IF currOpt.name # NoName /\ MapHas(reg.longOptIndex, currOpt.name)
     THEN [reg EXCEPT !.threw = "Duplicate long option"]
     ELSE IF currOpt.shortName # NoShort
             /\ MapHas(reg.shortOptIndex, currOpt.shortName)
     THEN [reg EXCEPT !.threw = "Duplicate short option"]
     ELSE [threw |-> "",
           allOpts |-> allOpts1,
           longOptIndex |->
             IF currOpt.name # NoName
             THEN MapInsert(reg.longOptIndex, currOpt.name, allOptIndex)
             ELSE reg.longOptIndex,
           longopts |->
             IF currOpt.name # NoName
             THEN appendToLongOptions(currOpt, reg.longopts)
             ELSE reg.longopts,
           shortOptIndex |->
             IF currOpt.shortName # NoShort
             THEN MapInsert(reg.shortOptIndex, currOpt.shortName, allOptIndex)
             ELSE reg.shortOptIndex,
           shortopts |->
             IF currOpt.shortName # NoShort
             THEN appendToOptString(currOpt, reg.shortopts)
             ELSE reg.shortopts]

RECURSIVE AddOptions(_, _)
AddOptions(reg, opts) ==
  IF opts = <<>> \/ reg.threw # "" THEN reg
  ELSE AddOptions(AddOption(reg, Head(opts)), Tail(opts))

\* the locals with shortopts "-:": non-options are returned in order
EmptyRegistryInOrder ==
  [threw |-> "", allOpts |-> <<>>, longOptIndex |-> {}, longopts |-> <<>>,
   shortOptIndex |-> {}, shortopts |-> <<"-", ":">>]

\* the locals of parseCLI before the loops
EmptyRegistry ==
  [threw |-> "", allOpts |-> <<>>, longOptIndex |-> {}, longopts |-> <<>>,
   shortOptIndex |-> {}, shortopts |-> <<"+", ":">>]

\* the two loops over the groups and their options
BuildRegistry(groups) == AddOptions(EmptyRegistry, Flatten(groups))

(***************************************************************************)
(* getopt_long of the C library (glibc), as parseCLI calls it: the scan    *)
(* position is the pair optind, nextchar (glibc's __nextchar, here the     *)
(* position in argv[optind] of the next short option of a cluster, or 0);  *)
(* opterr = 0, so nothing is printed. The result is the returned optc, the *)
(* value left in option_index (-1 when it is not written), optarg, and the *)
(* new scan position. form and key say what was read: they are read only   *)
(* by the properties.                                                      *)
(* Of the three orderings only REQUIRE_ORDER (optstring begins with '+')   *)
(* and RETURN_IN_ORDER (it begins with '-') are modelled.                  *)
(***************************************************************************)
\* the values of optc that are not option characters
EOF == "EOF"
LongVal == "NUL"
InOrderVal == "SOH"

Arg(av, i) == av[i + 1]

\* NONOPTION_P
NonOptionP(tok) == Len(tok) = 0 \/ tok[1] # "-" \/ Len(tok) = 1

\* strchr: the first position of c in str, 0 when there is none
StrChr(str, c) ==
  IF \E p \in 1..Len(str) : str[p] = c
  THEN CHOOSE p \in 1..Len(str) : str[p] = c /\ \A q \in 1..(p - 1) : str[q] # c
  ELSE 0

GetoptResult(optc, longind, optarg, oi, nc, form, key) ==
  [optc |-> optc, longind |-> longind, optarg |-> optarg, optind |-> oi,
   nextchar |-> nc, form |-> form, key |-> key]

\* process_long_option comparing over the shorter of the two names: a name
\* that begins with the name of an option is taken for it
process_long_optionShorter(av, optstring, longopts, oi) ==
  LET tok == Arg(av, oi)
      argc == Len(av)
      eq == StrChr(From(tok, 3), "=")
      nameend == IF eq = 0 THEN Len(tok) + 1 ELSE eq + 2
      name == SubSeq(tok, 3, nameend - 1)
      n == Len(longopts)
      exact == {p \in 1..n : longopts[p].name = name}
      abbrev == {p \in 1..n : \/ IsPrefix(name, longopts[p].name)
                                \/ IsPrefix(longopts[p].name, name)}
      first(S) == CHOOSE p \in S : \A q \in S : p <= q
      ambiguous == exact = {} /\ abbrev # {}
                   /\ \E q \in abbrev :
                        longopts[q].has_arg # longopts[first(abbrev)].has_arg
      found == IF exact # {} THEN first(exact)
               ELSE IF abbrev # {} THEN first(abbrev) ELSE 0
      missing == IF optstring # <<>> /\ optstring[1] = ":" THEN ":" ELSE "?"
  IN IF ambiguous \/ found = 0
     THEN GetoptResult("?", -1, None, oi + 1, 0, "long", name)
     ELSE LET pfound == longopts[found]
          IN IF eq # 0
             THEN IF pfound.has_arg # no_argument
                  THEN GetoptResult(LongVal, found - 1, Some(From(tok, nameend + 1)),
                                    oi + 1, 0, "long", name)
                  ELSE GetoptResult("?", -1, None, oi + 1, 0, "long", name)
             ELSE IF pfound.has_arg = required_argument
             THEN IF oi + 1 < argc
                  THEN GetoptResult(LongVal, found - 1, Some(Arg(av, oi + 1)),
                                    oi + 2, 0, "long", name)
                  ELSE GetoptResult(missing, -1, None, oi + 1, 0, "long", name)
             ELSE GetoptResult(LongVal, found - 1, None, oi + 1, 0, "long", name)

\* the long option "--name" or "--name=value" at argv[oi]
process_long_option(av, optstring, longopts, oi) ==
  LET tok == Arg(av, oi)
      argc == Len(av)
      eq == StrChr(From(tok, 3), "=")
      nameend == IF eq = 0 THEN Len(tok) + 1 ELSE eq + 2
      name == SubSeq(tok, 3, nameend - 1)
      n == Len(longopts)
      exact == {p \in 1..n : longopts[p].name = name}
      abbrev == {p \in 1..n : IsPrefix(name, longopts[p].name)}
      first(S) == CHOOSE p \in S : \A q \in S : p <= q
      ambiguous == exact = {} /\ abbrev # {}
                   /\ \E q \in abbrev :
                        longopts[q].has_arg # longopts[first(abbrev)].has_arg
      found == IF exact # {} THEN first(exact)
               ELSE IF abbrev # {} THEN first(abbrev) ELSE 0
      missing == IF optstring # <<>> /\ optstring[1] = ":" THEN ":" ELSE "?"
  IN IF ambiguous \/ found = 0
     THEN GetoptResult("?", -1, None, oi + 1, 0, "long", name)
     ELSE LET pfound == longopts[found]
          IN IF eq # 0
             THEN IF pfound.has_arg # no_argument
                  THEN GetoptResult(LongVal, found - 1, Some(From(tok, nameend + 1)),
                                    oi + 1, 0, "long", name)
                  ELSE GetoptResult("?", -1, None, oi + 1, 0, "long", name)
             ELSE IF pfound.has_arg = required_argument
             THEN IF oi + 1 < argc
                  THEN GetoptResult(LongVal, found - 1, Some(Arg(av, oi + 1)),
                                    oi + 2, 0, "long", name)
                  ELSE GetoptResult(missing, -1, None, oi + 1, 0, "long", name)
             ELSE GetoptResult(LongVal, found - 1, None, oi + 1, 0, "long", name)

\* the short option at position k of argv[oi]
ShortOption(av, optstring, oi, k) ==
  LET tok == Arg(av, oi)
      argc == Len(av)
      c == tok[k]
      atEnd == k + 1 > Len(tok)
      oi2 == IF atEnd THEN oi + 1 ELSE oi
      nc2 == IF atEnd THEN 0 ELSE k + 1
      temp == StrChr(optstring, c)
      at(d) == IF temp + d <= Len(optstring) THEN optstring[temp + d] ELSE ""
      missing == IF optstring # <<>> /\ optstring[1] = ":" THEN ":" ELSE "?"
  IN IF temp = 0 \/ c = ":" \/ c = ";"
     THEN GetoptResult("?", -1, None, oi2, nc2, "short", <<c>>)
     ELSE IF at(1) = ":"
     THEN IF at(2) = ":"
          THEN \* an option that accepts an argument optionally
               IF ~atEnd
               THEN GetoptResult(c, -1, Some(From(tok, k + 1)), oi + 1, 0, "short", <<c>>)
               ELSE GetoptResult(c, -1, None, oi2, 0, "short", <<c>>)
          ELSE \* an option that requires an argument
               IF ~atEnd
               THEN GetoptResult(c, -1, Some(From(tok, k + 1)), oi + 1, 0, "short", <<c>>)
               ELSE IF oi2 = argc
               THEN GetoptResult(missing, -1, None, oi2, 0, "short", <<c>>)
               ELSE GetoptResult(c, -1, Some(Arg(av, oi2)), oi2 + 1, 0, "short", <<c>>)
     ELSE GetoptResult(c, -1, None, oi2, nc2, "short", <<c>>)

getopt_long(av, shortopts, longopts, optind0, nextchar0) ==
  LET argc == Len(av)
      \* optind = 0 asks for the initialisation
      oi == IF optind0 = 0 THEN 1 ELSE optind0
      nc == IF optind0 = 0 THEN 0 ELSE nextchar0
      ordered == shortopts # <<>> /\ shortopts[1] \in {"+", "-"}
      optstring == IF ordered THEN Tail(shortopts) ELSE shortopts
      inOrder == shortopts # <<>> /\ shortopts[1] = "-"
  IN IF argc < 1 THEN GetoptResult(EOF, -1, None, optind0, nextchar0, "none", <<>>)
     ELSE IF nc # 0 THEN ShortOption(av, optstring, oi, nc)
     ELSE IF oi # argc /\ Arg(av, oi) = <<"-", "-">>
     THEN GetoptResult(EOF, -1, None, oi + 1, 0, "none", <<>>)
     ELSE IF oi = argc
     THEN GetoptResult(EOF, -1, None, oi, 0, "none", <<>>)
     ELSE IF NonOptionP(Arg(av, oi))
     THEN IF inOrder
          THEN GetoptResult(InOrderVal, -1, Some(Arg(av, oi)), oi + 1, 0, "none", <<>>)
          ELSE GetoptResult(EOF, -1, None, oi, 0, "none", <<>>)
     ELSE IF Arg(av, oi)[2] = "-"
     THEN process_long_option(av, optstring, longopts, oi)
     ELSE ShortOption(av, optstring, oi, 2)

(***************************************************************************)
(* The program: main's variables, one call of parseCLI.                    *)
(*   options, argv   the arguments of parseCLI                             *)
(*   targets         the caller's variables the setters write              *)
(*   pc              "start": parseCLI entered; "scan": in the while loop;  *)
(*                   "done": returned; "threw": left by an Exception       *)
(*   allOpts .. shortopts   the locals of parseCLI                         *)
(*   optind, nextchar       the scan position of getopt_long               *)
(*   ret, what       the value returned, the message of the Exception      *)
(*   trace           one entry per iteration of the loop: what was read    *)
(*                   (the token at, the scan position next, optarg) and    *)
(*                   what Value::set did (read only by the properties)     *)
(*   calls           the number of calls of parseCLI the caller has made   *)
(*   pre             the targets as they were when the call was made       *)
(*   prev            the call before this one: its argv, the targets       *)
(*                   before and after it, what it returned                 *)
(* optind and nextchar belong to the C library and outlive a call; the     *)
(* locals are made anew by each call.                                      *)
(***************************************************************************)
VARIABLES options, argv, targets, pc, allOpts, longOptIndex, shortOptIndex,
          longopts, shortopts, optind, nextchar, ret, what, trace,
          calls, pre, prev

vars == <<options, argv, targets, pc, allOpts, longOptIndex, shortOptIndex,
          longopts, shortopts, optind, nextchar, ret, what, trace,
          calls, pre, prev>>

\* what the caller keeps about its calls
callVars == <<calls, pre, prev>>

argc == Len(argv)

\* the head of parseCLI without "optind = 0": the scan position stays where
\* the call before left it (at the end of argv when it was beyond it)
RegistryBuiltKeepsOptind ==
  /\ pc = "start"
  /\ LET reg == BuildRegistry(options)
     IN /\ reg.threw = ""
        /\ allOpts' = reg.allOpts
        /\ longOptIndex' = reg.longOptIndex
        /\ shortOptIndex' = reg.shortOptIndex
        /\ longopts' = reg.longopts
        /\ shortopts' = reg.shortopts
  /\ optind' = IF optind > argc THEN argc ELSE optind
  /\ pc' = "scan"
  /\ UNCHANGED <<options, argv, targets, ret, what, trace, nextchar>>
  /\ UNCHANGED callVars

\* the head of parseCLI up to the setup of getopt, when no Exception is thrown
RegistryBuilt ==
  /\ pc = "start"
  /\ LET reg == BuildRegistry(options)
     IN /\ reg.threw = ""
        /\ allOpts' = reg.allOpts
        /\ longOptIndex' = reg.longOptIndex
        /\ shortOptIndex' = reg.shortOptIndex
        /\ longopts' = reg.longopts
        /\ shortopts' = reg.shortopts
  /\ optind' = 0
  /\ nextchar' = 0
  /\ pc' = "scan"
  /\ UNCHANGED <<options, argv, targets, ret, what, trace>>
  /\ UNCHANGED callVars

\* the head of parseCLI when one of the three throws is reached
RegistryThrows ==
  /\ pc = "start"
  /\ LET reg == BuildRegistry(options)
     IN /\ reg.threw # ""
        /\ what' = reg.threw
  /\ pc' = "threw"
  /\ UNCHANGED <<options, argv, targets, allOpts, longOptIndex, shortOptIndex,
                 longopts, shortopts, optind, nextchar, ret, trace>>
  /\ UNCHANGED callVars

\* the call of getopt_long of the current iteration
Got == getopt_long(argv, shortopts, longopts, optind, nextchar)

\* the entry of trace for an iteration that called no Value::set
NoSet(kind, g) ==
  [kind |-> kind, at |-> IF optind = 0 THEN 1 ELSE optind, next |-> g.optind,
   form |-> g.form, key |-> g.key, optarg |-> g.optarg, index |-> -1,
   arg |-> None, ret |-> FALSE,
   reused |-> FALSE, invoked |-> FALSE, recv |-> None,
   before |-> targets, after |-> targets]

\* optc == -1: the loop is left and optind returned
ScanReturn ==
  /\ pc = "scan"
  /\ Got.optc = EOF
  /\ optind' = Got.optind
  /\ nextchar' = Got.nextchar
  /\ ret' = Got.optind
  /\ pc' = "done"
  /\ UNCHANGED <<options, argv, targets, allOpts, longOptIndex, shortOptIndex,
                 longopts, shortopts, what, trace>>
  /\ UNCHANGED callVars

\* case '?' after a getopt_long that leaves the scan position where it was
ScanUnknownStays ==
  /\ pc = "scan"
  /\ Got.optc = "?"
  /\ trace' = Append(trace, NoSet("unknown", Got))
  /\ UNCHANGED <<options, argv, targets, pc, allOpts, longOptIndex,
                 shortOptIndex, longopts, shortopts, ret, what,
                 optind, nextchar>>
  /\ UNCHANGED callVars

\* case '?' leaving the loop instead of going on
ScanUnknownStops ==
  /\ pc = "scan"
  /\ Got.optc = "?"
  /\ optind' = Got.optind
  /\ nextchar' = Got.nextchar
  /\ ret' = Got.optind
  /\ pc' = "done"
  /\ trace' = Append(trace, NoSet("unknown", Got))
  /\ UNCHANGED <<options, argv, targets, allOpts, longOptIndex,
                 shortOptIndex, longopts, shortopts, what>>
  /\ UNCHANGED callVars

\* case '?'
ScanUnknown ==
  /\ pc = "scan"
  /\ Got.optc = "?"
  /\ optind' = Got.optind
  /\ nextchar' = Got.nextchar
  /\ trace' = Append(trace, NoSet("unknown", Got))
  /\ UNCHANGED <<options, argv, targets, pc, allOpts, longOptIndex,
                 shortOptIndex, longopts, shortopts, ret, what>>
  /\ UNCHANGED callVars

\* case ':'
ScanMissing ==
  /\ pc = "scan"
  /\ Got.optc = ":"
  /\ optind' = Got.optind
  /\ nextchar' = Got.nextchar
  /\ trace' = Append(trace, NoSet("missing", Got))
  /\ UNCHANGED <<options, argv, targets, pc, allOpts, longOptIndex,
                 shortOptIndex, longopts, shortopts, ret, what>>
  /\ UNCHANGED callVars

\* the index into allOpts the default case computes, -1 when it finds none
IndexIn(shortIndex, g) ==
  IF g.longind = -1
  THEN IF MapHas(shortIndex, g.optc) THEN MapFind(shortIndex, g.optc) ELSE -1
  ELSE g.longind

OptionIndex(g) == IndexIn(shortOptIndex, g)

\* the default case without the test of strlen(optarg)
ArgOfNoStrlen(g) == g.optarg

\* the argument the default case hands to Value::set
ArgOf(g) == IF g.optarg.has /\ Len(g.optarg.val) > 0 THEN g.optarg ELSE None

\* default:
ScanOption ==
  /\ pc = "scan"
  /\ Got.optc \notin {EOF, "?", ":"}
  /\ optind' = Got.optind
  /\ nextchar' = Got.nextchar
  /\ LET index == OptionIndex(Got)
         arg == ArgOf(Got)
     IN IF index >= 0
        THEN LET r == Value_set(allOpts[index + 1], arg, targets)
             IN /\ allOpts' = [allOpts EXCEPT ![index + 1] = r.opt]
                /\ targets' = r.targets
                /\ trace' = Append(trace,
                     [kind |-> "set", at |-> IF optind = 0 THEN 1 ELSE optind,
                      next |-> Got.optind, form |-> Got.form, key |-> Got.key,
                      optarg |-> Got.optarg, index |-> index, arg |-> arg,
                      ret |-> r.ret,
                      reused |-> r.reused, invoked |-> r.invoked,
                      recv |-> r.recv, before |-> targets, after |-> r.targets])
        ELSE /\ trace' = Append(trace, NoSet("none", Got))
             /\ UNCHANGED <<allOpts, targets>>
  /\ UNCHANGED <<options, argv, pc, longOptIndex, shortOptIndex, longopts,
                 shortopts, ret, what>>
  /\ UNCHANGED callVars

Next ==
  \/ RegistryBuilt
  \/ RegistryThrows
  \/ ScanReturn
  \/ ScanUnknown
  \/ ScanMissing
  \/ ScanOption

(***************************************************************************)
(* Inputs. main.cpp gives the definitions and the initial values of the    *)
(* targets; the other definitions vary what main.cpp leaves fixed: options *)
(* with one name only, defaults that are absent, and definitions that      *)
(* registry construction must reject.                                      *)
(***************************************************************************)
N_int == <<"i", "n", "t">>
N_bool == <<"b", "o", "o", "l">>
N_string == <<"s", "t", "r", "i", "n", "g">>
N_ostring == <<"o", "s", "t", "r", "i", "n", "g">>
N_cstring == <<"c", "s", "t", "r", "i", "n", "g">>
N_pstring == <<"p", "s", "t", "r", "i", "n", "g">>
N_num == <<"n", "u", "m">>
N_flag == <<"f", "l", "a", "g">>
N_long == <<"l", "o", "n", "g">>
N_str == <<"s", "t", "r">>

S_untouched == <<"I", " ", "w", "a", "s", " ", "u", "n", "t", "o", "u", "c", "h", "e", "d">>
S_optional == <<"I", "'", "m", " ", "o", "p", "t", "i", "o", "n", "a", "l">>
S_seen == <<"S", "e", "e", "n", ",", " ", "i", " ", "w", "a", "s", " ", "s", "e", "e", "n">>

\* the variables of main
MainTargets ==
  [myStringVar |-> S_untouched, optionalVar |-> S_optional,
   stringVec |-> <<>>, myFlag |-> FALSE, myInt |-> 10]

Opt(name, shortName, flags, value) ==
  [name |-> name, shortName |-> shortName, flags |-> flags, value |-> value]

\* the options of main.cpp
MainOptions ==
  << [name |-> "Default", options |->
       << Opt(N_int, "i", RequiredArgument, IntType("myInt", Some(10))),
          Opt(N_bool, "b", NoArgument,
              BoolType("myFlag", StoreTrue, Some(FALSE))) >>],
     [name |-> "Extended", options |->
       << Opt(N_string, "s", RequiredArgument,
              StringType("myStringVar", Some(S_untouched))),
          Opt(N_ostring, "o", OptionalArgument + Repeatable,
              StringType("optionalVar", Some(S_seen))),
          Opt(N_cstring, "c", RequiredArgument + Repeatable,
              StringContainerType("stringVec")) >>] >>

\* an option with a short name only comes first; one has a long name only
ShortOnlyOptions ==
  << [name |-> "Default", options |->
       << Opt(NoName, "v", NoArgument, BoolType("myFlag", StoreTrue, None)),
          Opt(N_ostring, "o", OptionalArgument + Repeatable,
              StringType("optionalVar", Some(S_seen))),
          Opt(N_int, "i", RequiredArgument, IntType("myInt", None)),
          Opt(N_string, NoShort, RequiredArgument,
              StringType("myStringVar", None)) >>] >>

\* optional arguments: without a default, repeatable or not, and an int
NoDefaultOptions ==
  << [name |-> "Default", options |->
       << Opt(N_ostring, "o", OptionalArgument + Repeatable,
              StringType("optionalVar", None)),
          Opt(N_pstring, "p", OptionalArgument,
              StringType("myStringVar", None)) >>],
     [name |-> "Extended", options |->
       << Opt(N_num, "n", OptionalArgument, IntType("myInt", Some(7))) >>] >>

\* the options a generated set of definitions is drawn from
OptionPool ==
  << Opt(N_int, "i", RequiredArgument, IntType("myInt", Some(10))),
     Opt(N_bool, "b", NoArgument, BoolType("myFlag", StoreTrue, None)),
     Opt(N_int, "j", NoArgument, BoolType("myFlag", StoreTrue, None)),
     Opt(N_flag, "b", NoArgument, BoolType("myFlag", StoreTrue, None)),
     Opt(N_str, "s", RequiredArgument + OptionalArgument,
         StringType("myStringVar", None)),
     Opt(NoName, "v", NoArgument, BoolType("myFlag", StoreTrue, None)),
     Opt(N_long, NoShort, RequiredArgument, StringType("myStringVar", None)),
     Opt(NoName, NoShort, NoArgument, BoolType("myFlag", StoreTrue, None)) >>

SeqsUpTo(S, n) == UNION {[1..k -> S] : k \in 0..n}

\* the first option in one group, the others in a second
Grouped(opts) ==
  IF opts = <<>> THEN << [name |-> "Default", options |-> <<>>] >>
  ELSE << [name |-> "Default", options |-> <<Head(opts)>>],
          [name |-> "Extended", options |-> Tail(opts)] >>

\* the definitions made of the options of the pool at the positions ix
Generated(ix) == Grouped([k \in 1..Len(ix) |-> OptionPool[ix[k]]])

\* definitions that registry construction rejects: two options named -b
RejectedOptions == Generated(<<2, 4>>)

(***************************************************************************)
(* The tokens of argv, by family: argv is argv[0] followed by at most      *)
(* MaxArgs tokens of one family.                                           *)
(***************************************************************************)
Prog == <<"p">>

\* the order of options and positional tokens
ScanTokens ==
  { <<"-", "b">>,
    <<"-", "-", "b", "o", "o", "l">>,
    <<"-", "i">>,
    <<"-", "-", "i", "n", "t">>,
    <<"x">>,
    <<"-", "-">>,
    <<"-">>,
    <<"-", "o">> }

\* the arguments of the int option
IntTokens ==
  { <<"-", "i">>,
    <<"-", "-", "i", "n", "t", "=", "5">>,
    <<"7">>,
    <<"3", "x">>,
    <<"x">>,
    <<"2", "1", "4", "7", "4", "8", "3", "6", "4", "8">>,
    <<"-", "-", "i", "n", "t", "=">>,
    <<>> }

\* the string options: once, optional, repeated
StringTokens ==
  { <<"-", "-", "s", "t", "r", "i", "n", "g", "=", "a">>,
    <<"-", "s", "b">>,
    <<"-", "-", "o", "s", "t", "r", "i", "n", "g">>,
    <<"-", "-", "o", "s", "t", "r", "i", "n", "g", "=">>,
    <<"-", "o", "a">>,
    <<"-", "-", "c", "s", "t", "r", "i", "n", "g", "=", "a">>,
    <<"-", "c">>,
    <<"-", "-", "c", "s", "t", "r", "i", "n", "g", "=">> }

\* the per-token errors
ErrorTokens ==
  { <<"-", "z">>,
    <<"-", "-", "z", "z", "z">>,
    <<"-", "-", "i", "n">>,
    <<"-", "z", "b">>,
    <<"-", "-", "b", "o", "o", "l", "=", "x">>,
    <<"-", "i">>,
    <<"-", "i", "x">>,
    <<"-", "b">> }

\* for ShortOnlyOptions
ShortOnlyTokens ==
  { <<"-", "v">>,
    <<"-", "-", "i", "n", "t", "=", "5">>,
    <<"-", "i">>,
    <<"7">>,
    <<"-", "-", "s", "t", "r", "i", "n", "g", "=", "a">>,
    <<"-", "v", "i">>,
    <<"-", "-", "i", "n", "t">>,
    <<"-", "-", "o", "s", "t", "r", "i", "n", "g">> }

\* for NoDefaultOptions
NoDefaultTokens ==
  { <<"-", "-", "o", "s", "t", "r", "i", "n", "g">>,
    <<"-", "o", "a">>,
    <<"-", "o">>,
    <<"-", "-", "p", "s", "t", "r", "i", "n", "g">>,
    <<"-", "p", "a">>,
    <<"-", "-", "n", "u", "m">>,
    <<"-", "n", "5">>,
    <<"x">> }

\* for the generated definitions
GeneratedTokens ==
  { <<"-", "b">> }

\* the definitions and the family of tokens they are parsed with
Configs ==
  << [options |-> MainOptions, tokens |-> ScanTokens],
     [options |-> MainOptions, tokens |-> IntTokens],
     [options |-> MainOptions, tokens |-> StringTokens],
     [options |-> MainOptions, tokens |-> ErrorTokens],
     [options |-> ShortOnlyOptions, tokens |-> ShortOnlyTokens],
     [options |-> NoDefaultOptions, tokens |-> NoDefaultTokens] >>

\* the record of a call when there was none
NoCall == [argv |-> <<>>, pre |-> MainTargets, post |-> MainTargets, ret |-> -1]

Argvs(tokens, n) == {<<Prog>> \o a : a \in SeqsUpTo(tokens, n)}

InitLocals ==
  /\ targets = MainTargets
  /\ pc = "start"
  /\ allOpts = <<>>
  /\ longOptIndex = {}
  /\ shortOptIndex = {}
  /\ longopts = <<>>
  /\ shortopts = <<>>
  /\ optind = 0
  /\ nextchar = 0
  /\ ret = -1
  /\ what = ""
  /\ trace = <<>>
  /\ calls = 1
  /\ pre = targets
  /\ prev = NoCall

Init ==
  /\ \/ \E c \in 1..Len(Configs) :
          /\ options = Configs[c].options
          /\ argv \in Argvs(Configs[c].tokens, MaxArgs)
     \/ \E ix \in SeqsUpTo(1..Len(OptionPool), MaxOpts) :
          /\ options = Generated(ix)
          /\ argv \in Argvs(GeneratedTokens, MaxGenArgs)
  /\ InitLocals

Spec == Init /\ [][Next]_vars

(***************************************************************************)
(* One call of parseCLI whose loop runs on: an iteration that can be made  *)
(* is made. argv holds clusters of short options, unknown options and      *)
(* options whose argument is missing.                                      *)
(***************************************************************************)
\* the number of tokens after argv[0]
MaxLiveArgs == 2

LiveTokens ==
  { <<"-", "z", "b">>,
    <<"-", "b", "i">>,
    <<"-", "-", "z", "z", "z">>,
    <<"-", "i">>,
    <<"x">> }

InitLive ==
  /\ options \in {MainOptions, RejectedOptions}
  /\ argv \in Argvs(LiveTokens, MaxLiveArgs)
  /\ InitLocals

\* one iteration of the while loop
Iteration == ScanReturn \/ ScanUnknown \/ ScanMissing \/ ScanOption

SpecLive == InitLive /\ [][Next]_vars /\ WF_vars(Iteration)

(***************************************************************************)
(* One call of parseCLI with a BoolType option of either policy and any    *)
(* default, on a target that is true or false before the call.             *)
(***************************************************************************)
\* the number of tokens after argv[0]
MaxBoolArgs == 2

BoolOptions(store, defVal) ==
  << [name |-> "Default", options |->
       << Opt(N_flag, "f", NoArgument, BoolType("myFlag", store, defVal)),
          Opt(N_int, "i", RequiredArgument, IntType("myInt", None)) >>] >>

\* the flag in both forms and abbreviated, an option that takes the next
\* token, an unknown option, a positional token
BoolTokens ==
  { <<"-", "f">>,
    <<"-", "-", "f", "l", "a", "g">>,
    <<"-", "-", "f", "l">>,
    <<"-", "i">>,
    <<"-", "z">>,
    <<"x">> }

InitBool ==
  /\ \/ \E store \in {StoreFalse, StoreTrue} :
          \E defVal \in {None, Some(TRUE), Some(FALSE)} :
            options = BoolOptions(store, defVal)
     \/ options = RejectedOptions
  /\ argv \in Argvs(BoolTokens, MaxBoolArgs)
  /\ \E b \in BOOLEAN : targets = [MainTargets EXCEPT !.myFlag = b]
  /\ pc = "start"
  /\ allOpts = <<>>
  /\ longOptIndex = {}
  /\ shortOptIndex = {}
  /\ longopts = <<>>
  /\ shortopts = <<>>
  /\ optind = 0
  /\ nextchar = 0
  /\ ret = -1
  /\ what = ""
  /\ trace = <<>>
  /\ calls = 1
  /\ pre = targets
  /\ prev = NoCall

SpecBool == InitBool /\ [][Next]_vars

(***************************************************************************)
(* One call of parseCLI with main's options on a collection that is empty  *)
(* or not before the call.                                                 *)
(***************************************************************************)
\* the number of tokens after argv[0]
MaxVecArgs == 3

\* the collection option in both forms, with an argument attached, in the
\* next token, of zero length or missing, and an unknown option
VecTokens ==
  { <<"-", "-", "c", "s", "t", "r", "i", "n", "g", "=", "a">>,
    <<"-", "c", "b">>,
    <<"-", "c">>,
    <<"-", "-", "c", "s", "t", "r", "i", "n", "g", "=">>,
    <<"-", "z">> }

InitVec ==
  /\ options \in {MainOptions, RejectedOptions}
  /\ argv \in Argvs(VecTokens, MaxVecArgs)
  /\ \E v \in {<<>>, << <<"z">> >>} :
       targets = [MainTargets EXCEPT !.stringVec = v]
  /\ pc = "start"
  /\ allOpts = <<>>
  /\ longOptIndex = {}
  /\ shortOptIndex = {}
  /\ longopts = <<>>
  /\ shortopts = <<>>
  /\ optind = 0
  /\ nextchar = 0
  /\ ret = -1
  /\ what = ""
  /\ trace = <<>>
  /\ calls = 1
  /\ pre = targets
  /\ prev = NoCall

SpecVec == InitVec /\ [][Next]_vars

(***************************************************************************)
(* Several calls of parseCLI by one caller. The caller calls again after   *)
(* a call has returned or thrown, with the same definitions object and an  *)
(* argv of its choice, on the targets as they are or on targets set back   *)
(* to their first values. What the C library keeps (optind, nextchar) is   *)
(* left as the call before left it.                                        *)
(***************************************************************************)
\* the number of calls of parseCLI
MaxCalls == 2
\* the number of tokens after argv[0] of each of the calls
MaxCallArgs == 2

\* the tokens of the calls: the string option in its long form and in its
\* short form, which takes the next token or misses its argument at the
\* end, and an unknown option
CallTokens ==
  { <<"-", "-", "s", "t", "r", "i", "n", "g", "=", "a">>,
    <<"-", "z">>,
    <<"-", "s">> }

CallAgain ==
  /\ pc \in {"done", "threw"}
  /\ calls < MaxCalls
  /\ calls' = calls + 1
  /\ prev' = [argv |-> argv, pre |-> pre, post |-> targets, ret |-> ret]
  /\ argv' \in Argvs(CallTokens, MaxCallArgs)
  /\ targets' \in {targets, MainTargets}
  /\ pre' = targets'
  /\ pc' = "start"
  /\ allOpts' = <<>>
  /\ longOptIndex' = {}
  /\ shortOptIndex' = {}
  /\ longopts' = <<>>
  /\ shortopts' = <<>>
  /\ ret' = -1
  /\ what' = ""
  /\ trace' = <<>>
  /\ UNCHANGED <<options, optind, nextchar>>

InitCalls ==
  /\ options \in {MainOptions, RejectedOptions}
  /\ argv \in Argvs(CallTokens, MaxCallArgs)
  /\ InitLocals

NextCalls == Next \/ CallAgain

SpecCalls == InitCalls /\ [][NextCalls]_vars

(***************************************************************************)
(* parseCLI as a function of its arguments and of the targets: the scan    *)
(* of one call that starts from nothing but them.                          *)
(***************************************************************************)
\* the while loop from the scan position oi, nc on
RECURSIVE ScanLoop(_, _, _, _, _, _)
ScanLoop(reg, av, oi, nc, opts, tg) ==
  LET g == getopt_long(av, reg.shortopts, reg.longopts, oi, nc)
  IN IF g.optc = EOF THEN [threw |-> "", targets |-> tg, ret |-> g.optind]
     ELSE IF g.optc \in {"?", ":"}
     THEN ScanLoop(reg, av, g.optind, g.nextchar, opts, tg)
     ELSE LET index == IndexIn(reg.shortOptIndex, g)
          IN IF index < 0 THEN ScanLoop(reg, av, g.optind, g.nextchar, opts, tg)
             ELSE LET r == Value_set(opts[index + 1], ArgOf(g), tg)
                  IN ScanLoop(reg, av, g.optind, g.nextchar,
                              [opts EXCEPT ![index + 1] = r.opt], r.targets)

parseCLI(av, groups, tg) ==
  LET reg == BuildRegistry(groups)
  IN IF reg.threw # "" THEN [threw |-> reg.threw, targets |-> tg, ret |-> -1]
     ELSE ScanLoop(reg, av, 0, 0, reg.allOpts, tg)

(***************************************************************************)
(* One call of parseCLI with main's options on names that are not          *)
(* registered: a character and a name no option has, a name that begins a  *)
(* registered name, a name that a registered name begins.                  *)
(***************************************************************************)
\* the number of tokens after argv[0]
MaxUnknownArgs == 3

UnknownTokens ==
  { <<"-", "z">>,
    <<"-", "-", "z", "z", "z">>,
    <<"-", "-", "i", "n">>,
    <<"-", "-", "i", "n", "t", "x">>,
    <<"-", "z", "b">>,
    <<"-", "i">>,
    <<"5">> }

InitUnknown ==
  /\ options \in {MainOptions, RejectedOptions}
  /\ argv \in Argvs(UnknownTokens, MaxUnknownArgs)
  /\ InitLocals

SpecUnknown == InitUnknown /\ [][Next]_vars

(***************************************************************************)
(* What the properties read.                                               *)
(*                                                                         *)
(* The option syntax of the specification (section 6), stated on argv and  *)
(* on the definitions, without getopt_long: which tokens have the syntax   *)
(* of an option, which option a token names, and whether the token takes   *)
(* the following token as its argument.                                    *)
(***************************************************************************)
Defs == Flatten(options)
Dash2 == <<"-", "-">>

\* -x..., --name...: a token with the syntax of an option
OptionSyntax(tok) == Len(tok) >= 2 /\ tok[1] = "-"
LongSyntax(tok) == Len(tok) >= 2 /\ tok[1] = "-" /\ tok[2] = "-"

\* the name of a long token, up to its '='; what follows the '='
HasEq(tok) == \E p \in 3..Len(tok) : tok[p] = "="
EqPos(tok) == CHOOSE p \in 3..Len(tok) : tok[p] = "=" /\ \A q \in 3..(p - 1) : tok[q] # "="
NameOf(tok) == IF HasEq(tok) THEN SubSeq(tok, 3, EqPos(tok) - 1) ELSE From(tok, 3)
AttachedOf(tok) == IF HasEq(tok) THEN From(tok, EqPos(tok) + 1) ELSE <<>>

\* the definitions a long name stands for: the one of that name, else those
\* it abbreviates
Named(name) ==
  LET exact == {k \in 1..Len(Defs) : Defs[k].name # NoName /\ Defs[k].name = name}
      abbr == {k \in 1..Len(Defs) :
                 Defs[k].name # NoName /\ IsPrefix(name, Defs[k].name)}
  IN IF exact # {} THEN exact ELSE abbr

\* the arity a long name has, -1 when it names nothing or names options of
\* different arities
LongArity(name) ==
  LET ar == {ArgType(Defs[k].flags) : k \in Named(name)}
  IN IF Cardinality(ar) = 1 THEN CHOOSE a \in ar : TRUE ELSE -1

\* the arity of a short option character, -1 when no option has it
ShortArity(c) ==
  LET ks == {k \in 1..Len(Defs) : Defs[k].shortName = c}
  IN IF ks = {} THEN -1 ELSE ArgType(Defs[CHOOSE k \in ks : TRUE].flags)

\* the position in a cluster of the first option that takes an argument, 0
\* when there is none
TakerPos(tok) ==
  LET ps == {p \in 2..Len(tok) :
               ShortArity(tok[p]) \in {RequiredArgument, OptionalArgument}}
  IN IF ps = {} THEN 0 ELSE CHOOSE p \in ps : \A q \in ps : p <= q

\* an option token that takes the following token as its argument
TakesNext(tok) ==
  IF LongSyntax(tok)
  THEN ~HasEq(tok) /\ LongArity(NameOf(tok)) = RequiredArgument
  ELSE /\ TakerPos(tok) = Len(tok)
       /\ ShortArity(tok[Len(tok)]) = RequiredArgument

\* the index at which scanning that starts at token i stops: the first
\* token that is neither an option nor the argument of the option before
\* it; with delim, the token after a "--"
RECURSIVE ScanStop(_, _)
ScanStop(i, delim) ==
  IF i >= argc THEN argc
  ELSE IF delim /\ Arg(argv, i) = Dash2 THEN i + 1
  ELSE IF ~OptionSyntax(Arg(argv, i)) THEN i
  ELSE IF TakesNext(Arg(argv, i)) /\ i + 1 < argc THEN ScanStop(i + 2, delim)
  ELSE ScanStop(i + 1, delim)

\* what the loop did, from trace
Entries == 1..Len(trace)
IsSet(k) == trace[k].kind = "set"
OptOf(k) == allOpts[trace[k].index + 1]
\* token i was read as an option token, was taken as an argument
ReadAsOption(i) == \E k \in Entries : trace[k].at = i
TakenAsArgument(i) == \E k \in Entries : trace[k].at < i /\ i < trace[k].next
Delimiter(i) == Arg(argv, i) = Dash2 /\ ~TakenAsArgument(i)

(***************************************************************************)
(* C1: the value parseCLI returns.                                         *)
(***************************************************************************)
\* every token before the returned index was read as an option token or
\* taken as the argument of one ("--" is counted with the option tokens)
ConsumedBefore(r) ==
  \A i \in 1..(r - 1) : ReadAsOption(i) \/ TakenAsArgument(i) \/ Delimiter(i)

\* C1 as claimed: parseCLI returns r with 1 <= r <= argc, every token at
\* 1..r-1 consumed as an option token or as the argument of an option, and
\* r = argc or argv[r] the first non-option token of argv (neither an
\* option nor the consumed argument of a preceding option).
C1_Original ==
  pc = "done" =>
    /\ 1 <= ret /\ ret <= argc
    /\ ConsumedBefore(ret)
    /\ ret = ScanStop(1, FALSE)

\* C1 amended: as claimed, except that a "--" token that is not an argument
\* ends the scan: it is consumed, and the index after it is returned
\* whatever the token there looks like.
C1_ReturnIndex ==
  pc = "done" =>
    /\ 1 <= ret /\ ret <= argc
    /\ ConsumedBefore(ret)
    /\ ret = ScanStop(1, TRUE)
    /\ ret = argc \/ Delimiter(ret - 1)
         \/ (~OptionSyntax(Arg(argv, ret)) /\ ~TakenAsArgument(ret))

\* an option and its argument are consumed and a positional token is left
C1_Witness ==
  /\ pc = "done"
  /\ ret = 3 /\ ret < argc
  /\ TakenAsArgument(2)
  /\ ~OptionSyntax(Arg(argv, ret))

(***************************************************************************)
(* C2: nothing is scanned after the first positional token.                *)
(***************************************************************************)
\* a token that is neither an option nor the argument of one
Positional(i) == ~OptionSyntax(Arg(argv, i)) /\ ~TakenAsArgument(i)

\* the targets as the calls of Value::set left them, one after the other
RECURSIVE Chained(_)
Chained(k) ==
  IF k = 0 THEN TRUE
  ELSE /\ trace[k].before = (IF k = 1 THEN MainTargets ELSE trace[k - 1].after)
       /\ Chained(k - 1)

\* the option of allOpts bound to a target was given to no Value::set
NeverSet(target) ==
  \A k \in Entries : IsSet(k) => OptOf(k).value.target # target

\* C2: option scanning is never resumed after the first positional token:
\* no iteration of the loop reads a positional token or a token after one,
\* no token at or after the returned index reaches Value::set or changes a
\* target, and a target whose option was not set before the returned index
\* keeps its pre-parse value.
C2_NoScanAfterPositional ==
  /\ \A k \in Entries : \A j \in 1..trace[k].at : ~Positional(j)
  /\ pc = "done" =>
       /\ \A k \in Entries : trace[k].at < ret /\ trace[k].next <= ret
       /\ Chained(Len(trace))
       /\ targets = IF trace = <<>> THEN MainTargets ELSE trace[Len(trace)].after
       /\ \A t \in DOMAIN MainTargets :
            NeverSet(t) => targets[t] = MainTargets[t]

\* a registered option follows a positional token and its target is as before
C2_Witness ==
  /\ pc = "done"
  /\ options = MainOptions
  /\ ret < argc - 1
  /\ Positional(ret)
  /\ \E i \in (ret + 1)..(argc - 1) : Arg(argv, i) = <<"-", "b">>
  /\ targets.myFlag = MainTargets.myFlag

(***************************************************************************)
(* C3: the second use of an option.                                        *)
(***************************************************************************)
Occurrences(index) == {k \in Entries : IsSet(k) /\ trace[k].index = index}
IsRepeatable(opt) == HasBit(opt.flags, Repeatable)
\* no other option of allOpts writes the target of the option at index
OnlyWriter(index) ==
  \A j \in 1..Len(allOpts) :
    j # index + 1 => allOpts[j].value.target # allOpts[index + 1].value.target

\* the second and every later occurrence of an option that is not
\* Repeatable is rejected and writes nothing
LaterRejected ==
  \A k \in Entries : \A j \in 1..(k - 1) :
    (IsSet(k) /\ IsSet(j) /\ trace[j].index = trace[k].index
     /\ ~IsRepeatable(OptOf(k)))
    => /\ trace[k].reused /\ ~trace[k].ret /\ ~trace[k].invoked
       /\ trace[k].after = trace[k].before

\* the target keeps what the first occurrence left in it
FirstStays ==
  \A k \in Entries :
    (IsSet(k) /\ ~IsRepeatable(OptOf(k)) /\ OnlyWriter(trace[k].index)
     /\ \A j \in 1..(k - 1) : ~(IsSet(j) /\ trace[j].index = trace[k].index))
    => targets[OptOf(k).value.target] = trace[k].after[OptOf(k).value.target]

\* Value::set has something to hand to the setter
HasInput(k) ==
  \/ trace[k].arg.has
  \/ ArgType(OptOf(k).flags) = NoArgument
  \/ (HasBit(OptOf(k).flags, OptionalArgument) /\ defaultValue(OptOf(k).value).has)

\* a RequiredArgument option given an absent argument (the case of C15)
AbsentRequired(k) ==
  ArgType(OptOf(k).flags) = RequiredArgument /\ ~trace[k].arg.has

\* C3 as claimed: within one parseCLI call the second and every later
\* occurrence of an option without Repeatable is rejected (Value::set
\* returns false, the setter is not invoked) and the target keeps the value
\* of the first occurrence; every occurrence of a Repeatable option invokes
\* the setter. (Stated in the claim's favour: the occurrences of a
\* RequiredArgument option with an absent argument are left aside.)
C3_Original ==
  /\ LaterRejected
  /\ FirstStays
  /\ \A k \in Entries :
       (IsSet(k) /\ IsRepeatable(OptOf(k)) /\ ~AbsentRequired(k))
       => trace[k].invoked

\* C3 amended: as claimed for an option without Repeatable; no occurrence
\* of a Repeatable option is rejected as a re-use, and it invokes the setter
\* exactly when Value::set has something to hand to it: a non-empty
\* argument, the default of an OptionalArgument option, or nothing for a
\* NoArgument option.
C3_Reuse ==
  /\ LaterRejected
  /\ FirstStays
  /\ \A k \in Entries :
       (IsSet(k) /\ IsRepeatable(OptOf(k)))
       => ~trace[k].reused /\ (trace[k].invoked <=> HasInput(k))

\* --string twice: the second is rejected and the first value stays
C3_Witness ==
  /\ pc = "done"
  /\ options = MainOptions
  /\ \E j, k \in Entries :
       /\ j < k /\ IsSet(j) /\ IsSet(k)
       /\ trace[j].index = 2 /\ trace[k].index = 2
       /\ trace[j].ret /\ trace[k].reused
       /\ trace[k].arg.has /\ trace[k].arg.val # trace[j].arg.val
       /\ targets.myStringVar = trace[j].arg.val

(***************************************************************************)
(* C4: definitions that registry construction rejects.                     *)
(***************************************************************************)
DuplicateLong ==
  \E i, j \in 1..Len(Defs) :
    i < j /\ Defs[i].name # NoName /\ Defs[i].name = Defs[j].name
DuplicateShort ==
  \E i, j \in 1..Len(Defs) :
    i < j /\ Defs[i].shortName # NoShort /\ Defs[i].shortName = Defs[j].shortName
BothArities ==
  \E i \in 1..Len(Defs) :
    HasBit(Defs[i].flags, RequiredArgument) /\ HasBit(Defs[i].flags, OptionalArgument)
InvalidDefs == DuplicateLong \/ DuplicateShort \/ BothArities

\* C4: with two options of the same long name, two of the same short
\* character or an option both Required and Optional, parseCLI ends with
\* the Exception whatever argv is, before a token is scanned: no
\* Value::set is invoked and no target changes.
C4_RejectedBeforeScan ==
  InvalidDefs =>
    /\ pc \in {"start", "threw"}
    /\ trace = <<>>
    /\ targets = MainTargets
    /\ ret = -1
    /\ optind = 0
    /\ pc = "threw" => what # ""

\* the Exception is thrown although argv holds a registered option
C4_Witness ==
  /\ pc = "threw"
  /\ DuplicateShort /\ ~DuplicateLong /\ ~BothArities
  /\ argc = 2 /\ Arg(argv, 1) = <<"-", "b">>

(***************************************************************************)
(* C5: the option a token is dispatched to.                                *)
(***************************************************************************)
\* C5: each recognized long-option token --N invokes Value::set on the
\* option whose long name is N (here also: the option N abbreviates), each
\* recognized short-option token -c on the option whose short character
\* is c, also when some options have a short name only.
C5_Dispatch ==
  \A k \in Entries :
    IsSet(k) =>
      /\ trace[k].form = "long" =>
           /\ OptOf(k).name # NoName
           /\ IsPrefix(trace[k].key, OptOf(k).name)
      /\ trace[k].form = "short" => OptOf(k).shortName = trace[k].key[1]

(***************************************************************************)
(* C6, C7: optional arguments.                                             *)
(***************************************************************************)
IsOptional(k) == IsSet(k) /\ HasBit(OptOf(k).flags, OptionalArgument)

\* the argument attached to the option of entry k in its token: what
\* follows the '=' of a long option, the option character of a short one
Attached(k) ==
  LET tok == Arg(argv, trace[k].at)
  IN IF trace[k].form = "long" THEN AttachedOf(tok)
     ELSE LET p == CHOOSE p \in 2..Len(tok) :
                     /\ tok[p] = trace[k].key[1]
                     /\ \A q \in 2..(p - 1) : tok[q] # trace[k].key[1]
          IN From(tok, p + 1)

\* the token of entry k names an OptionalArgument option
NamesOptional(k) ==
  \/ trace[k].form = "long" /\ LongArity(trace[k].key) = OptionalArgument
  \/ trace[k].form = "short" /\ ShortArity(trace[k].key[1]) = OptionalArgument

\* the argument the occurrence carries: optarg as getopt_long left it,
\* empty when there is none
Carried(k) == IF trace[k].optarg.has THEN trace[k].optarg.val ELSE <<>>

\* what C6 says of the call k of Value::set on an OptionalArgument option
OptionalOutcome(k) ==
  LET def == defaultValue(OptOf(k).value)
      got == IF Carried(k) # <<>> THEN Some(Carried(k)) ELSE def
  IN IF got.has
     THEN /\ trace[k].invoked
          /\ trace[k].recv.has /\ trace[k].recv.val = got.val
          /\ OptOf(k).value.kind = "StringType"
               => trace[k].after[OptOf(k).value.target] = got.val
     ELSE /\ ~trace[k].ret /\ ~trace[k].invoked
          /\ trace[k].after = trace[k].before

\* the occurrence of an option that takes an optional argument carries
\* what is attached to it in its token, and nothing else
CarriesAttached ==
  \A k \in Entries : NamesOptional(k) => Carried(k) = Attached(k)

\* C6 as claimed: for an OptionalArgument option the setter receives the
\* non-empty attached argument of the occurrence; with no argument or a
\* zero-length one it receives the default if there is one, and otherwise
\* Value::set returns false without invoking the setter and the target is
\* unchanged.
C6_Original ==
  /\ CarriesAttached
  /\ \A k \in Entries : IsOptional(k) => OptionalOutcome(k)

\* C6 amended: as claimed for every occurrence that Value::set does not
\* reject as the re-use of an option without Repeatable; a rejected
\* occurrence invokes no setter and changes no target, whatever argument
\* it carries.
C6_OptionalArgument ==
  /\ CarriesAttached
  /\ \A k \in Entries :
       IsOptional(k) =>
         IF trace[k].reused
         THEN /\ ~IsRepeatable(OptOf(k))
              /\ ~trace[k].ret /\ ~trace[k].invoked
              /\ trace[k].after = trace[k].before
         ELSE OptionalOutcome(k)

\* --ostring without an argument leaves the default in optionalVar
C6_Witness ==
  /\ pc = "done"
  /\ options = MainOptions
  /\ \E k \in Entries :
       /\ IsOptional(k) /\ NamesOptional(k) /\ Attached(k) = <<>>
       /\ trace[k].invoked
       /\ trace[k].recv.val = S_seen
  /\ targets.optionalVar = S_seen

\* C7: an OptionalArgument option never takes the following token as its
\* argument: its occurrence consumes its own token only, an occurrence
\* with nothing attached hands no argument to Value::set, which then gives
\* the setter the default, and when the following token is not an option
\* the scan stops and parseCLI returns its index.
C7_NoSeparateArgument ==
  \A k \in Entries :
    NamesOptional(k) =>
      /\ trace[k].next = trace[k].at + 1
      /\ Attached(k) = <<>> => ~trace[k].arg.has
      /\ (IsOptional(k) /\ Attached(k) = <<>> /\ ~trace[k].reused
          /\ defaultValue(OptOf(k).value).has)
         => /\ trace[k].invoked
            /\ trace[k].recv.val = defaultValue(OptOf(k).value).val
      /\ (pc = "done" /\ trace[k].next < argc
          /\ ~OptionSyntax(Arg(argv, trace[k].next)))
         => ret = trace[k].next

\* -o x: the default is stored and x is where parseCLI stops
C7_Witness ==
  /\ pc = "done"
  /\ options = MainOptions
  /\ argc = 3
  /\ Arg(argv, 1) = <<"-", "o">>
  /\ Arg(argv, 2) = <<"x">>
  /\ ret = 2
  /\ targets.optionalVar = S_seen

(***************************************************************************)
(* C8: the setter of IntType.                                              *)
(***************************************************************************)
\* an optional sign and one digit or more, and nothing else
WholeDecimal(a) ==
  LET body == IF a # <<>> /\ a[1] \in {"-", "+"} THEN Tail(a) ELSE a
  IN body # <<>> /\ \A p \in 1..Len(body) : IsDigit(body[p])

\* C8: the setter of IntType writes the target only when the whole
\* argument is a well-formed base-10 integer in the range of int, and then
\* the target is that integer; for a malformed or out-of-range argument it
\* returns false and leaves the target as it was; the returned index
\* advances past the option and its argument all the same.
C8_IntSetter ==
  /\ \A k \in Entries :
       (IsSet(k) /\ trace[k].invoked /\ trace[k].recv.has
        /\ OptOf(k).value.kind = "IntType")
       => IF WholeDecimal(trace[k].recv.val) /\ stoi(trace[k].recv.val).ok
          THEN /\ trace[k].ret
               /\ trace[k].after[OptOf(k).value.target]
                    = stoi(trace[k].recv.val).val
          ELSE /\ ~trace[k].ret
               /\ trace[k].after = trace[k].before
  /\ pc = "done" => \A k \in Entries : trace[k].next <= ret

(***************************************************************************)
(* C9: errors do not end the scan.                                         *)
(***************************************************************************)
\* an iteration that reported an error or whose Value::set failed
IsError(k) ==
  \/ trace[k].kind \in {"unknown", "missing"}
  \/ (IsSet(k) /\ ~trace[k].ret)

\* nothing is left to scan at index i: the end, a positional token, "--"
NothingToScan(i) ==
  i = argc \/ ~OptionSyntax(Arg(argv, i)) \/ Arg(argv, i) = Dash2

\* a token that names the bool option of main.cpp and is no argument
NamesBool(i) ==
  /\ Arg(argv, i) \in {<<"-", "b">>, Dash2 \o N_bool}
  /\ ~TakenAsArgument(i)

\* C9: after an unknown option, a missing argument, a conversion failure or
\* a rejected re-use the loop goes on with the next option of the token or
\* with the next token, and leaves only when nothing is left to scan; every
\* option token before the first positional token is read, and a later -b
\* or --bool still sets its target.
C9_ErrorsDoNotStop ==
  /\ \A k \in Entries :
       IsError(k) =>
         IF k < Len(trace)
         THEN trace[k + 1].at \in {trace[k].at, trace[k].next}
         ELSE pc = "done" =>
                /\ NothingToScan(trace[k].next)
                /\ ret \in {trace[k].next, trace[k].next + 1}
  /\ pc = "done" =>
       /\ \A i \in 1..(ScanStop(1, TRUE) - 1) :
            (OptionSyntax(Arg(argv, i)) /\ ~TakenAsArgument(i) /\ ~Delimiter(i))
            => ReadAsOption(i)
       /\ options = MainOptions =>
            \A i \in 1..(ScanStop(1, TRUE) - 1) :
              NamesBool(i) => targets.myFlag = TRUE

\* the rejected re-use of an option is followed by a -b that sets myFlag
C9_Witness ==
  /\ pc = "done"
  /\ options = MainOptions
  /\ \E k \in Entries :
       /\ IsError(k) /\ k < Len(trace)
       /\ IsSet(k) /\ trace[k].reused
       /\ \E j \in (k + 1)..Len(trace) :
            IsSet(j) /\ trace[j].index = 1 /\ trace[j].ret
  /\ targets.myFlag = TRUE

(***************************************************************************)
(* C10: the indices of the registry.                                       *)
(***************************************************************************)
Built == pc \in {"scan", "done"}
WithLong == {k \in 1..Len(Defs) : Defs[k].name # NoName}
WithShort == {k \in 1..Len(Defs) : Defs[k].shortName # NoShort}

\* C10 as claimed: with no duplicate long name, no duplicate short
\* character and no option both Required and Optional, registry
\* construction succeeds and the long-name index and the short-name index
\* both have as many entries as there are options.
C10_Original ==
  ~InvalidDefs =>
    /\ pc # "threw"
    /\ Built => /\ Cardinality(longOptIndex) = Len(Defs)
                /\ Cardinality(shortOptIndex) = Len(Defs)

\* C10 amended: construction succeeds, allOpts holds the options in their
\* order, and each index has one entry for every option that has a name of
\* its kind, bound to the position of that option; the size of an index is
\* the number of options only when every option has a name of that kind.
C10_Indices ==
  ~InvalidDefs =>
    /\ pc # "threw"
    /\ Built =>
         /\ Len(allOpts) = Len(Defs)
         /\ \A k \in 1..Len(Defs) :
              /\ allOpts[k].name = Defs[k].name
              /\ allOpts[k].shortName = Defs[k].shortName
              /\ allOpts[k].flags = Defs[k].flags
         /\ longOptIndex = {<<Defs[k].name, k - 1>> : k \in WithLong}
         /\ shortOptIndex = {<<Defs[k].shortName, k - 1>> : k \in WithShort}
         /\ Cardinality(longOptIndex) = Cardinality(WithLong)
         /\ Cardinality(shortOptIndex) = Cardinality(WithShort)

\* three options are accepted and the long-name index has two entries
C10_Witness ==
  /\ Built
  /\ ~InvalidDefs
  /\ Len(allOpts) = 3
  /\ Cardinality(longOptIndex) = 2
  /\ Cardinality(shortOptIndex) = 2

(***************************************************************************)
(* C11: nothing is kept from one call to the next.                         *)
(***************************************************************************)
\* C11: what a call of parseCLI does to the targets and what it returns
\* (or that it throws) is what parseCLI computes from the call's argv, the
\* definitions and the targets before the call, whatever calls came before
\* it; so a call with the argv and the targets of the call before it ends
\* with the same targets and the same return index.
C11_NoStateAcrossCalls ==
  /\ pc \in {"done", "threw"} =>
       LET f == parseCLI(argv, options, pre)
       IN /\ (pc = "threw") <=> (f.threw # "")
          /\ what = f.threw
          /\ targets = f.targets
          /\ ret = f.ret
  /\ (pc = "done" /\ calls > 1 /\ prev.argv = argv /\ prev.pre = pre)
     => (targets = prev.post /\ ret = prev.ret)

\* the second call takes --string=a after the first has taken it too, on
\* targets set back to their first values
C11_Witness ==
  /\ pc = "done"
  /\ calls = 2
  /\ options = MainOptions
  /\ prev.argv = argv /\ prev.pre = pre
  /\ Len(trace) = 1
  /\ trace[1].kind = "set" /\ trace[1].index = 2 /\ trace[1].ret
  /\ ~trace[1].reused
  /\ targets.myStringVar = <<"a">>
  /\ ret = 2

(***************************************************************************)
(* C12: the loop ends.                                                     *)
(***************************************************************************)
\* the scan position as a pair: the index of the token and the position in
\* it of the next option character (0: the token has not been entered)
TokenAt(oi) == IF oi = 0 THEN 1 ELSE oi

\* an iteration that stays in the loop moves the scan position forward
Advances ==
  (pc = "scan" /\ pc' = "scan") =>
    \/ TokenAt(optind') > TokenAt(optind)
    \/ TokenAt(optind') = TokenAt(optind) /\ nextchar' > nextchar

\* C12: for valid definitions the loop of parseCLI reaches the return, and
\* every iteration that does not leave the loop consumes an option
\* character or a token, whatever argv holds.
C12_Terminates ==
  /\ (pc = "scan") ~> (pc = "done")
  /\ [][Advances]_vars

\* a parse that has returned after an unknown option in a cluster with a
\* known one and a missing argument
C12_Witness ==
  /\ pc = "done"
  /\ ret = argc
  /\ \E j, k, m \in Entries :
       /\ j < k /\ k < m
       /\ trace[j].kind = "unknown" /\ trace[j].next = trace[j].at
       /\ trace[k].kind = "set" /\ trace[k].at = trace[j].at
       /\ trace[m].kind = "missing"

(***************************************************************************)
(* C13: the target of a BoolType option.                                   *)
(***************************************************************************)
\* the option at position d of allOpts is the only one that writes its target
SoleWriter(d) ==
  \A e \in 1..Len(allOpts) :
    allOpts[e].value.target = allOpts[d].value.target => e = d

\* Value::set was called on the option at position d of allOpts
Occurred(d) == \E k \in Entries : IsSet(k) /\ trace[k].index = d - 1

\* C13: after a parse the target of a NoArgument BoolType option is true
\* for StoreTrue and false for StoreFalse when the option occurred (a token
\* was dispatched to it), and as before the parse when it did not; the
\* default given at construction has no part in it.
C13_BoolTarget ==
  pc = "done" =>
    \A d \in 1..Len(allOpts) :
      (/\ allOpts[d].value.kind = "BoolType"
       /\ ArgType(allOpts[d].flags) = NoArgument
       /\ SoleWriter(d))
      => targets[allOpts[d].value.target]
           = IF Occurred(d) THEN (allOpts[d].value.store = StoreTrue)
             ELSE pre[allOpts[d].value.target]

\* a StoreFalse option with the default true, on a target that was true
C13_Witness ==
  /\ pc = "done"
  /\ options = BoolOptions(StoreFalse, Some(TRUE))
  /\ pre.myFlag = TRUE
  /\ Occurred(1)
  /\ targets.myFlag = FALSE

(***************************************************************************)
(* C14: the collection of a StringContainerType option.                    *)
(***************************************************************************)
\* the arguments that the occurrences from entry k on of the option at
\* position d of allOpts carry, in the order of the occurrences; an
\* occurrence that carries none (or one of zero length) gives nothing
RECURSIVE ArgumentsFrom(_, _)
ArgumentsFrom(k, d) ==
  IF k > Len(trace) THEN <<>>
  ELSE IF IsSet(k) /\ trace[k].index = d - 1 /\ Carried(k) # <<>>
  THEN <<Carried(k)>> \o ArgumentsFrom(k + 1, d)
  ELSE ArgumentsFrom(k + 1, d)

\* C14: after a parse the collection of a Repeatable RequiredArgument
\* StringContainerType option is what it was before the parse followed by
\* the arguments of the occurrences of the option, short or long, in their
\* order in argv; an occurrence without an argument appends nothing.
C14_Collection ==
  pc = "done" =>
    \A d \in 1..Len(allOpts) :
      (/\ allOpts[d].value.kind = "StringContainerType"
       /\ ArgType(allOpts[d].flags) = RequiredArgument
       /\ HasBit(allOpts[d].flags, Repeatable)
       /\ SoleWriter(d))
      => /\ targets[allOpts[d].value.target]
              = pre[allOpts[d].value.target] \o ArgumentsFrom(1, d)
         /\ \A j, k \in Entries :
              (j < k /\ IsSet(j) /\ IsSet(k)
               /\ trace[j].index = d - 1 /\ trace[k].index = d - 1)
              => trace[j].at < trace[k].at

\* -cb, --cstring= and --cstring=a on a collection that held z
C14_Witness ==
  /\ pc = "done"
  /\ options = MainOptions
  /\ pre.stringVec = << <<"z">> >>
  /\ Len(trace) = 3
  /\ \A k \in Entries : IsSet(k) /\ trace[k].index = 4
  /\ trace[1].form = "short" /\ trace[2].form = "long"
  /\ ~trace[2].arg.has /\ ~trace[2].invoked
  /\ targets.stringVec = << <<"z">>, <<"b">>, <<"a">> >>

(***************************************************************************)
(* C15: the arity of the option when Value::set is called.                 *)
(***************************************************************************)
\* the call of entry k went to the option its token names
DispatchedByName(k) ==
  /\ trace[k].form = "long" =>
       /\ OptOf(k).name # NoName
       /\ IsPrefix(trace[k].key, OptOf(k).name)
  /\ trace[k].form = "short" => OptOf(k).shortName = trace[k].key[1]

\* C15: parseCLI never calls Value::set with an absent argument on a
\* RequiredArgument option, so the last return false of Value::set is not
\* reached, also for --name= and for an empty following token. (Stated in
\* the claim's favour: the calls that went to another option than the one
\* the token names, the matter of C5, are left aside.)
C15_ArityEnforced ==
  \A k \in Entries :
    (IsSet(k) /\ DispatchedByName(k)) => ~AbsentRequired(k)

(***************************************************************************)
(* C16: _wasSet after a call that failed.                                  *)
(***************************************************************************)
\* the first call of Value::set on the option of entry k
FirstOf(k) ==
  CHOOSE j \in Entries :
    /\ IsSet(j) /\ trace[j].index = trace[k].index
    /\ \A i \in 1..(j - 1) : ~(IsSet(i) /\ trace[i].index = trace[k].index)

\* C16: after a call of Value::set the option has _wasSet = true whatever
\* the call returned (and an option no call was made on has not); so when
\* the first occurrence of an option without Repeatable fails, every later
\* occurrence is rejected as a re-use and no occurrence writes the target.
C16_FailedCallsCount ==
  /\ \A d \in 1..Len(allOpts) : allOpts[d].value.wasSet <=> Occurred(d)
  /\ \A k \in Entries :
       (IsSet(k) /\ ~IsRepeatable(OptOf(k)) /\ ~trace[FirstOf(k)].ret)
       => /\ k # FirstOf(k) =>
               (trace[k].reused /\ ~trace[k].ret /\ ~trace[k].invoked)
          /\ trace[k].after = trace[k].before

\* -i x fails to convert, the --int=5 after it is rejected, myInt is as it was
C16_Witness ==
  /\ pc = "done"
  /\ options = MainOptions
  /\ Len(trace) = 2
  /\ IsSet(1) /\ trace[1].index = 0 /\ trace[1].invoked /\ ~trace[1].ret
  /\ IsSet(2) /\ trace[2].index = 0 /\ trace[2].reused
  /\ trace[2].arg = Some(<<"5">>)
  /\ targets.myInt = MainTargets.myInt

(***************************************************************************)
(* C17: options that are not registered.                                   *)
(***************************************************************************)
RegisteredShort(c) == \E d \in 1..Len(Defs) : Defs[d].shortName = c
RegisteredLong(name) ==
  \E d \in 1..Len(Defs) : Defs[d].name # NoName /\ Defs[d].name = name
\* the name is a registered name or begins one
BeginsLong(name) ==
  \E d \in 1..Len(Defs) : Defs[d].name # NoName /\ IsPrefix(name, Defs[d].name)

\* iteration k made no call of Value::set, changed no target, and the loop
\* went on after it
NoEffect(k) ==
  /\ trace[k].kind = "unknown"
  /\ ~trace[k].invoked
  /\ trace[k].after = trace[k].before
  /\ IF k < Len(trace)
     THEN trace[k + 1].at \in {trace[k].at, trace[k].next}
     ELSE pc = "done" => NothingToScan(trace[k].next)

\* C17 as stated: a short option character that is no registered short name
\* and a long option --N whose N is not exactly a registered long name have
\* no effect.
C17_Original ==
  \A k \in Entries :
    \/ (trace[k].form = "short" /\ ~RegisteredShort(trace[k].key[1]))
    \/ (trace[k].form = "long" /\ ~RegisteredLong(trace[k].key))
    => NoEffect(k)

\* C17: a short option character that is no registered short name, and a
\* long option --N whose N neither is a registered long name nor begins
\* one, call no Value::set and change no target; the loop goes on with what
\* follows.
C17_Unknown ==
  \A k \in Entries :
    \/ (trace[k].form = "short" /\ ~RegisteredShort(trace[k].key[1]))
    \/ (trace[k].form = "long" /\ ~BeginsLong(trace[k].key))
    => NoEffect(k)

\* --intx and -z are passed over and the -i 5 after them sets myInt
C17_Witness ==
  /\ pc = "done"
  /\ Len(trace) = 2
  /\ trace[1].form = "long" /\ trace[1].key = N_int \o <<"x">>
  /\ trace[1].kind = "unknown"
  /\ IsSet(2) /\ trace[2].ret /\ trace[2].index = 0
  /\ targets.myInt = 5

(***************************************************************************)
(* C18: options without a name.                                            *)
(***************************************************************************)
\* C18: when the registry is built, every option of the flattened list has
\* a long name or a short name.
C18_Named ==
  Built => \A d \in 1..Len(allOpts) :
             allOpts[d].name # NoName \/ allOpts[d].shortName # NoShort

(***************************************************************************)
(* C19: the two forms of one option.                                       *)
(***************************************************************************)
\* definition d has both names and is not Repeatable
BothNames(d) ==
  /\ Defs[d].name # NoName /\ Defs[d].shortName # NoShort
  /\ ~IsRepeatable(Defs[d])

\* iteration k read definition d by its short or by its full long name,
\* and reported no error of the token
OccurrenceOf(k, d) ==
  /\ trace[k].kind \notin {"unknown", "missing"}
  /\ \/ (trace[k].form = "short" /\ trace[k].key = <<Defs[d].shortName>>)
     \/ (trace[k].form = "long" /\ trace[k].key = Defs[d].name)

\* the token is definition d in its short form alone: -c, or -cARG when d
\* takes an argument
ShortFormOf(tok, d) ==
  /\ Len(tok) >= 2 /\ tok[1] = "-" /\ tok[2] = Defs[d].shortName
  /\ ArgType(Defs[d].flags) = NoArgument => Len(tok) = 2

\* the token is definition d in its long form, and a short form says the
\* same: --name, or --name=ARG with an ARG that is not empty
LongFormOf(tok, d) ==
  /\ LongSyntax(tok) /\ NameOf(tok) = Defs[d].name
  /\ HasEq(tok) => (AttachedOf(tok) # <<>>
                    /\ ArgType(Defs[d].flags) # NoArgument)

\* the token in the other form, with the same argument attached
OtherForm(tok, d) ==
  IF LongSyntax(tok)
  THEN <<"-", Defs[d].shortName>> \o AttachedOf(tok)
  ELSE Dash2 \o Defs[d].name
         \o (IF Len(tok) > 2 THEN <<"=">> \o From(tok, 3) ELSE <<>>)

\* C19: for an option with both names and without Repeatable, every
\* occurrence in either form is a call of Value::set on the one option of
\* allOpts, every occurrence after the first is rejected as a re-use and
\* changes no target, and the parse of the argv with one occurrence written
\* in the other form ends with the same targets and the same return value.
C19_Forms ==
  \A d \in 1..Len(Defs) :
    (Built /\ BothNames(d)) =>
      /\ \A k \in Entries :
           OccurrenceOf(k, d) =>
             /\ IsSet(k) /\ trace[k].index = d - 1
             /\ (\E j \in 1..(k - 1) : OccurrenceOf(j, d)) =>
                  (trace[k].reused /\ trace[k].after = trace[k].before)
      /\ pc = "done" =>
           \A k \in Entries :
             LET i == trace[k].at
                 tok == Arg(argv, i)
             IN (OccurrenceOf(k, d)
                 /\ (ShortFormOf(tok, d) \/ LongFormOf(tok, d))) =>
                  LET r == parseCLI([argv EXCEPT ![i + 1] = OtherForm(tok, d)],
                                    options, pre)
                  IN r.threw = "" /\ r.targets = targets /\ r.ret = ret

(***************************************************************************)
(* C20: the argument in the following token.                               *)
(***************************************************************************)
\* iteration k read an option that requires an argument and has none
\* attached: the long token without '=', the last character of a cluster
RequiredBare(k) ==
  LET tok == Arg(argv, trace[k].at)
  IN /\ trace[k].form \in {"short", "long"}
     /\ TakesNext(tok)
     /\ trace[k].form = "short" => trace[k].key = <<tok[Len(tok)]>>

\* C20: an option that requires an argument and has none attached takes the
\* following token, whatever it is: the token is handed to Value::set as the
\* argument (and to the setter unless the call is rejected as a re-use) and
\* is not read as an option. Only when no token follows is the argument
\* reported missing; then no Value::set is called, and an option no call
\* was made on has _wasSet false.
C20_NextToken ==
  /\ \A k \in Entries :
       RequiredBare(k) =>
         LET i == trace[k].at
         IN IF i + 1 < argc
            THEN /\ IsSet(k)
                 /\ trace[k].next = i + 2
                 /\ ~ReadAsOption(i + 1)
                 /\ trace[k].arg = Some(Arg(argv, i + 1))
                 /\ ~trace[k].reused =>
                      (trace[k].invoked /\ trace[k].recv = Some(Arg(argv, i + 1)))
            ELSE /\ trace[k].kind = "missing"
                 /\ ~trace[k].invoked
                 /\ trace[k].after = trace[k].before
  /\ \A d \in 1..Len(allOpts) : ~Occurred(d) => ~allOpts[d].value.wasSet

====
